---- MODULE Spec2Model ----
(***************************************************************************)
(* The A-Frame `animation` component (src/components/animation/index.js).  *)
(*                                                                         *)
(* One entity carries the animation instances of Inst.  Every handler of   *)
(* the component is an operator from a state record to a state record (the *)
(* record holds one field per variable); an action applies one handler, or *)
(* the handlers one host call runs, to the current state.                  *)
(*                                                                         *)
(* The tweening engine (anime.js) and the host framework are not part of   *)
(* the component: the engine is modelled as the interface the component    *)
(* uses (construction from a config, seek, tick, the update and complete   *)
(* callbacks), the host as the calls it makes into the component.          *)
(***************************************************************************)
EXTENDS Integers, Sequences, FiniteSets, TLC

VARIABLES
  components,          \* el.components: the animation instances on the entity
  elIsPlaying,         \* host: the entity is playing (ticks are delivered)
  data,                \* this.data, per instance
  time,                \* this.time
  animation,           \* this.animation (the engine object, or null)
  animationIsPlaying,  \* this.animationIsPlaying
  paused,              \* this.paused
  pausedWasPlaying,    \* this.pausedWasPlaying
  config,              \* what updateConfig last put into this.config / this.targets
  listeners,           \* the instance's listeners attached to the entity
  timers,              \* armed setTimeout(this.beginAnimation, delay) callbacks
  scene,               \* the scene graph: property path -> value
  begun,               \* history, for the instances it is kept for: the
                       \* instance emitted animationbegin since its last update()
  last                 \* what the last host call did (observation only)

vars == <<components, elIsPlaying, data, time, animation, animationIsPlaying,
          paused, pausedWasPlaying, config, listeners, timers, scene, begun,
          last>>

-----------------------------------------------------------------------------
(* Bounds of the model *)

\* this.time is not advanced beyond MaxTime (milliseconds)
MaxTime == 1500
\* at most MaxTimers delayed starts of one instance are pending at a time
MaxTimers == 1

Inst == {1, 2}

Min(a, b) == IF a < b THEN a ELSE b

-----------------------------------------------------------------------------
(* JavaScript values and the coercions the component applies to them *)

\* a number is held in thousandths (field n), so that the fractions of an
\* interpolation from 0 to 1 are exact; field v holds the x, y, z of a vector
\* and the r, g, b of a THREE.Color, in thousandths too
JsString(s) == [t |-> "string", s |-> s, n |-> 0, b |-> FALSE, v |-> <<>>]
JsNumber(n) == [t |-> "number", s |-> "", n |-> n * 1000, b |-> FALSE, v |-> <<>>]
JsScaled(m) == [t |-> "number", s |-> "", n |-> m, b |-> FALSE, v |-> <<>>]
JsBoolean(b) == [t |-> "boolean", s |-> "", n |-> 0, b |-> b, v |-> <<>>]
JsNaN == [t |-> "NaN", s |-> "", n |-> 0, b |-> FALSE, v |-> <<>>]
JsNull == [t |-> "null", s |-> "", n |-> 0, b |-> FALSE, v |-> <<>>]
JsVec3(x, y, z) ==
  [t |-> "vec3", s |-> "", n |-> 0, b |-> FALSE,
   v |-> <<JsNumber(x).n, JsNumber(y).n, JsNumber(z).n>>]
JsColor(r, g, b) ==
  [t |-> "color", s |-> "", n |-> 0, b |-> FALSE,
   v |-> <<JsNumber(r).n, JsNumber(g).n, JsNumber(b).n>>]

\* the numeric strings of the model and their value (in thousandths)
NumericStrings == {"0", "1", "10"}
StringValue(s) ==
  CASE s = "0" -> 0
    [] s = "1" -> JsNumber(1).n
    [] s = "10" -> JsNumber(10).n
    [] OTHER -> 0

\* ToBoolean: what `a || b` and `a ? b : c` test
Truthy(v) ==
  CASE v.t = "string" -> v.s # ""
    [] v.t = "number" -> v.n # 0
    [] v.t = "boolean" -> v.b
    [] v.t \in {"vec3", "color"} -> TRUE
    [] OTHER -> FALSE

\* a || b
JsOr(a, b) == IF Truthy(a) THEN a ELSE b

\* Number(v); isNaN(v) is isNaN(Number(v))
ToNumber(v) ==
  CASE v.t = "string" ->
         IF v.s = "" THEN JsScaled(0)
         ELSE IF v.s \in NumericStrings THEN JsScaled(StringValue(v.s))
         ELSE JsNaN
    [] v.t = "number" -> v
    [] v.t = "boolean" -> IF v.b THEN JsNumber(1) ELSE JsNumber(0)
    [] v.t = "null" -> JsScaled(0)
    [] OTHER -> JsNaN

isNaN(v) == ToNumber(v).t = "NaN"

\* parseFloat(v): v is turned into a string first, so a boolean, null and the
\* empty string give NaN
parseFloat(v) ==
  CASE v.t = "string" ->
         IF v.s \in NumericStrings THEN JsScaled(StringValue(v.s)) ELSE JsNaN
    [] v.t = "number" -> v
    [] OTHER -> JsNaN

\* v.toString()
toString(v) ==
  CASE v.t = "boolean" -> JsString(IF v.b THEN "true" ELSE "false")
    [] OTHER -> v

\* a === b
StrictEquals(a, b) == a.t # "NaN" /\ a = b

\* a >= 1
AtLeastOne(v) == ToNumber(v).t = "number" /\ ToNumber(v).n >= JsNumber(1).n

\* AFRAME.utils.coordinates.parse of the coordinate strings of the model
coordinatesParse(str) ==
  CASE str = "0 0 0" -> JsVec3(0, 0, 0)
    [] str = "1 2 3" -> JsVec3(1, 2, 3)
    [] str = "180 0 0" -> JsVec3(180, 0, 0)
    [] OTHER -> JsNull

\* THREE.Color.set(value): a color string of the model, or a color object
colorSet(value) ==
  CASE value.t = "string" /\ value.s = "#fff" -> JsColor(1, 1, 1)
    [] value.t = "string" /\ value.s = "#000" -> JsColor(0, 0, 0)
    [] value.t = "color" -> value
    [] value.t = "vec3" -> [value EXCEPT !.t = "color"]
    [] OTHER -> JsColor(0, 0, 0)

\* THREE.Math.degToRad, on thousandths (pi / 180 as 349 / 20000)
degToRad(n) == (n * 349) \div 20000

\* toRadians (490-494)
toRadians(obj) ==
  [obj EXCEPT !.v = <<degToRad(@[1]), degToRad(@[2]), degToRad(@[3])>>]

-----------------------------------------------------------------------------
(* The schema, and the host's property accessors *)

\* schema defaults (index.js 48-72)
DefaultData ==
  [autoplay |-> TRUE, delay |-> 0, dur |-> 1000, from |-> "", loop |-> 0,
   property |-> "", startEvents |-> {}, pauseEvents |-> {},
   resumeEvents |-> {}, to |-> "", type |-> "", isRawProperty |-> FALSE]

TYPE_COLOR == "color"

PROP_POSITION == "position"
PROP_ROTATION == "rotation"
PROP_SCALE == "scale"

\* the property paths of the model: a boolean component, a numeric property
\* of a multi-property component, a raw path into the entity's object3D, the
\* transform components, a vector property of a multi-property component,
\* a raw path to a THREE.Color
Properties ==
  {"visible", "material.opacity", "object3D.visible", PROP_POSITION,
   PROP_ROTATION, "raycaster.direction", "components.material.material.color"}

\* getPropertyType (463-485): the schema type of the property, null for a
\* property of a component with no such schema entry and for a path whose
\* first segment names no component
getPropertyType(property) ==
  CASE property = "visible" -> "boolean"
    [] property = "material.opacity" -> "number"
    [] property \in {PROP_POSITION, PROP_ROTATION, PROP_SCALE} -> "vec3"
    [] property = "raycaster.direction" -> "vec3"
    [] OTHER -> "null"

\* property.startsWith('components') || property.startsWith('object3D')
RawPrefixed(property) ==
  property \in {"object3D.visible", "object3D.position", "object3D.rotation",
                "object3D.scale", "components.material.material.color"}

\* where el.object3D[property] is in the scene
object3DPath(property) ==
  CASE property = PROP_POSITION -> "object3D.position"
    [] property = PROP_ROTATION -> "object3D.rotation"
    [] OTHER -> "object3D.scale"

isRawProperty(d) == d.isRawProperty \/ RawPrefixed(d.property)

\* getComponentProperty / getRawProperty: the live value at the path
getComponentProperty(s, property) ==
  IF property \in DOMAIN s.scene THEN s.scene[property] ELSE JsNull

getRawProperty(s, path) ==
  IF path \in DOMAIN s.scene THEN s.scene[path] ELSE JsNull

-----------------------------------------------------------------------------
(* updateConfig: the endpoints and the update callback of one run *)

\* reader is the accessor that gave `from` ("data.from" when the
\* configuration states it), writer the one the update closure calls
NoConfig ==
  [route |-> "none", property |-> "", from |-> JsNull, to |-> JsNull,
   isBoolean |-> FALSE, isRaw |-> FALSE, type |-> "", duration |-> 0, loop |-> 0,
   reader |-> "none", writer |-> "none"]

\* updateConfigForRawColor (215-254)
updateConfigForRawColor(s, i) ==
  LET d == s.data[i]
      from0 == JsOr(JsString(d.from), getRawProperty(s, d.property))
  IN [route |-> "rawColor", property |-> d.property, from |-> colorSet(from0),
      to |-> colorSet(JsString(d.to)), isBoolean |-> FALSE,
      isRaw |-> isRawProperty(d), type |-> d.type, duration |-> d.dur,
      loop |-> d.loop,
      reader |-> IF d.from # "" THEN "data.from" ELSE "getRawProperty",
      writer |-> "setRawProperty"]

\* updateConfigForVector (324-393): isRawProperty is not consulted
updateConfigForVector(s, i) ==
  LET d == s.data[i]
      from0 == IF d.from # "" THEN coordinatesParse(d.from)
               ELSE getComponentProperty(s, d.property)
      to0 == coordinatesParse(d.to)
      isTransform == d.property \in {PROP_POSITION, PROP_ROTATION, PROP_SCALE}
  IN [route |-> IF isTransform THEN "transform" ELSE "vector",
      property |-> d.property,
      from |-> IF d.property = PROP_ROTATION THEN toRadians(from0) ELSE from0,
      to |-> IF d.property = PROP_ROTATION THEN toRadians(to0) ELSE to0,
      isBoolean |-> FALSE, isRaw |-> isRawProperty(d), type |-> d.type,
      duration |-> d.dur, loop |-> d.loop,
      reader |-> IF d.from # "" THEN "data.from" ELSE "getComponentProperty",
      writer |-> IF isTransform THEN "object3D.set" ELSE "setComponentProperty"]

\* updateConfigForDefault (259-318): from, to, and what the update closure
\* captures (isBoolean, the routing of the write)
updateConfigForDefault(s, i) ==
  LET d == s.data[i]
      from0 == JsOr(JsString(d.from),
                    IF isRawProperty(d) THEN getRawProperty(s, d.property)
                    ELSE getComponentProperty(s, d.property))
      to0 == JsString(d.to)
      isNumber == ~isNaN(JsOr(from0, to0))
      from1 == IF isNumber THEN parseFloat(from0)
               ELSE IF Truthy(from0) THEN toString(from0) ELSE from0
      to1 == IF isNumber THEN parseFloat(to0)
             ELSE IF Truthy(to0) THEN toString(to0) ELSE to0
      isBoolean == StrictEquals(to1, JsString("true")) \/ StrictEquals(to1, JsString("false"))
      from2 == IF isBoolean
               THEN (IF d.from = "true" THEN JsNumber(1) ELSE JsNumber(0))
               ELSE from1
      to2 == IF isBoolean
             THEN (IF d.to = "true" THEN JsNumber(1) ELSE JsNumber(0))
             ELSE to1
  IN [route |-> "default", property |-> d.property, from |-> from2, to |-> to2,
      isBoolean |-> isBoolean, isRaw |-> isRawProperty(d), type |-> d.type,
      duration |-> d.dur, loop |-> d.loop,
      reader |-> IF d.from # "" THEN "data.from"
                 ELSE IF isRawProperty(d) THEN "getRawProperty"
                 ELSE "getComponentProperty",
      writer |-> IF isRawProperty(d) THEN "setRawProperty"
                 ELSE "setComponentProperty"]

\* the route updateConfig takes (402-409)
Route(d) ==
  IF isRawProperty(d) /\ d.type = TYPE_COLOR THEN "rawColor"
  ELSE IF getPropertyType(d.property) \in {"vec2", "vec3", "vec4"} THEN "vector"
  ELSE "default"

\* updateConfig (398-410); the base config of update() (110-116) stays in
\* this.config
updateConfig(s, i) ==
  [s EXCEPT !.config[i] =
     CASE Route(s.data[i]) = "rawColor" -> updateConfigForRawColor(s, i)
       [] Route(s.data[i]) = "vector" -> updateConfigForVector(s, i)
       [] OTHER -> updateConfigForDefault(s, i)]

-----------------------------------------------------------------------------
(* The notifications and the scene writes of the component *)

\* el.emit(name, this.eventDetail); the record keeps, with the notification,
\* the instances that are running when it is emitted
emit(s, i, name) ==
  [s EXCEPT !.last.emitted =
     Append(@, [name |-> name, detail |-> i,
                running |-> {j \in Inst : s.animationIsPlaying[j]}])]

\* instance i stores value at path of the scene, through accessor via
setProperty(s, i, path, value, via) ==
  [s EXCEPT !.scene = [p \in DOMAIN @ \cup {path} |->
                         IF p = path THEN value ELSE @[p]],
            !.last.writes = Append(@, [by |-> i, property |-> path,
                                        value |-> value, via |-> via])]

\* setComponentProperty(el, property, value)
setComponentProperty(s, i, property, value) ==
  setProperty(s, i, property, value, "setComponentProperty")

\* setRawProperty (520-547): a color goes into the r, g, b of the object at
\* the path, or into its x, y, z when it has no r
setRawProperty(s, i, path, value, type) ==
  IF type = TYPE_COLOR
  THEN LET target == getRawProperty(s, path)
       IN setProperty(s, i, path,
                      [value EXCEPT !.t = IF target.t = "color" THEN "color"
                                          ELSE "vec3"],
                      "setRawProperty")
  ELSE setProperty(s, i, path, value, "setRawProperty")

\* el.object3D[property].set(x, y, z)
object3DSet(s, i, property, value) ==
  setProperty(s, i, object3DPath(property), value, "object3D.set")

\* config.update of updateConfigForRawColor (238-253): lastValue is compared
\* and never assigned
configUpdateForRawColor(s, i, value) ==
  LET a == s.animation[i] IN
  IF value.v = a.lastValue.v THEN s
  ELSE setRawProperty(s, i, a.config.property, value, a.config.type)

\* config.update of updateConfigForDefault (297-316)
configUpdateForDefault(s, i, value) ==
  LET a == s.animation[i] IN
  IF StrictEquals(value, a.lastValue) THEN s
  ELSE LET s1 == [s EXCEPT !.animation[i].lastValue = value]
           written == IF a.config.isBoolean THEN JsBoolean(AtLeastOne(value))
                      ELSE value
       IN IF a.config.isRaw
          THEN setRawProperty(s1, i, a.config.property, written, a.config.type)
          ELSE setComponentProperty(s1, i, a.config.property, written)

\* config.update of updateConfigForVector for position, rotation and scale
\* (353-371)
configUpdateForTransform(s, i, value) ==
  LET a == s.animation[i] IN
  IF value.v = a.lastValue.v THEN s
  ELSE object3DSet([s EXCEPT !.animation[i].lastValue = value], i,
                   a.config.property, value)

\* config.update of updateConfigForVector for another vector (375-392); its
\* value is anim.animations[0].target, taken to be the animated target
configUpdateForVector(s, i, value) ==
  LET a == s.animation[i] IN
  IF value.v = a.lastValue.v THEN s
  ELSE setComponentProperty([s EXCEPT !.animation[i].lastValue = value], i,
                            a.config.property, value)

\* the update closure the engine object of instance i holds, on the
\* interpolated value
configUpdate(s, i, value) ==
  CASE s.animation[i].config.route = "rawColor" -> configUpdateForRawColor(s, i, value)
    [] s.animation[i].config.route = "transform" -> configUpdateForTransform(s, i, value)
    [] s.animation[i].config.route = "vector" -> configUpdateForVector(s, i, value)
    [] OTHER -> configUpdateForDefault(s, i, value)

\* a completion that leaves the running flag set
configComplete_KeepsRunning(s, i) == emit(s, i, "animationcomplete")

\* config.complete (95-98)
configComplete(s, i) ==
  emit([s EXCEPT !.animationIsPlaying[i] = FALSE], i, "animationcomplete")

-----------------------------------------------------------------------------
(* The tweening engine, as the component uses it *)

NullAnimation ==
  [exists |-> FALSE, config |-> NoConfig, lastValue |-> JsNull,
   currentTime |-> 0, completed |-> FALSE]

\* anime(this.config): the engine object holds the config as it is now; the
\* update closure starts with lastValue = from
anime(s, i) ==
  [s EXCEPT !.animation[i] =
     [exists |-> TRUE, config |-> s.config[i], lastValue |-> s.config[i].from,
      currentTime |-> 0, completed |-> FALSE]]

\* the value of the animated target at engine time t
Interpolate(c, t) ==
  IF c.from.t = "number" /\ c.to.t = "number"
  THEN IF t >= c.duration THEN c.to
       ELSE JsScaled(c.from.n + ((c.to.n - c.from.n) * t) \div c.duration)
  ELSE IF c.from.t \in {"vec3", "color"} /\ c.to.t \in {"vec3", "color"}
  THEN IF t >= c.duration THEN [c.from EXCEPT !.v = c.to.v]
       ELSE [c.from EXCEPT !.v =
               [k \in 1..3 |-> @[k] + ((c.to.v[k] - @[k]) * t) \div c.duration]]
  ELSE IF c.from.t = "NaN" \/ c.to.t = "NaN" THEN JsNaN
  ELSE IF t >= c.duration THEN c.to ELSE c.from

\* drive the object to time t: the update callback runs; the complete
\* callback runs when the end is reached and completion was not yet reported
setInstanceProgress(s, i, t) ==
  LET a == s.animation[i]
      cur == Min(t, a.config.duration)
      s1 == [s EXCEPT !.animation[i].currentTime = cur,
                      !.last.driven = Append(@, [by |-> i, time |-> t])]
      s2 == configUpdate(s1, i, Interpolate(a.config, cur))
  IN IF t >= a.config.duration /\ ~a.completed
     THEN configComplete([s2 EXCEPT !.animation[i].completed = TRUE], i)
     ELSE s2

\* animation.seek(t): a seek before the end re-arms the completion report
animationSeek(s, i, t) ==
  setInstanceProgress(
    [s EXCEPT !.animation[i].completed = @ /\ t >= s.animation[i].config.duration],
    i, t)

\* animation.tick(t)
animationTick(s, i, t) == setInstanceProgress(s, i, t)

\* a TypeError (this.animation is null): the handler ends here
throw(s, i) == [s EXCEPT !.last.threw = @ \cup {i}]

-----------------------------------------------------------------------------
(* The component's handlers (index.js 76-457) *)

\* addEventListeners / removeEventListeners (429-443, 496-508): the event
\* names are those of this.data as it is now
ListenersOf(d) ==
  {[event |-> e, handler |-> "onStartEvent"] : e \in d.startEvents}
  \cup {[event |-> e, handler |-> "pauseAnimation"] : e \in d.pauseEvents}
  \cup {[event |-> e, handler |-> "resumeAnimation"] : e \in d.resumeEvents}

addEventListeners(s, i) ==
  [s EXCEPT !.listeners[i] = @ \cup ListenersOf(s.data[i])]

removeEventListeners(s, i) ==
  [s EXCEPT !.listeners[i] = @ \ ListenersOf(s.data[i])]

\* a pause that rewinds the elapsed time
pauseAnimation_Rewinds(s, i) ==
  [s EXCEPT !.animationIsPlaying[i] = FALSE, !.time[i] = 0]

\* pauseAnimation (192-194)
pauseAnimation(s, i) == [s EXCEPT !.animationIsPlaying[i] = FALSE]

\* a resume that starts over
resumeAnimation_Restart(s, i) ==
  [s EXCEPT !.animationIsPlaying[i] = TRUE, !.time[i] = 0]

\* a resume that does nothing once the animation has completed
resumeAnimation_UnlessCompleted(s, i) ==
  [s EXCEPT !.animationIsPlaying[i] = @ \/ ~s.animation[i].completed]

\* resumeAnimation (196-198)
resumeAnimation(s, i) == [s EXCEPT !.animationIsPlaying[i] = TRUE]

\* history of the begins of instance i, where it is kept
noteBegun(s, i, b) ==
  IF i \in DOMAIN s.begun THEN [s EXCEPT !.begun[i] = b] ELSE s

\* a scan that finds no sibling to stop
stopRelatedAnimations_None(s, i) == s

\* a scan that stops the other instances whatever their property
stopRelatedAnimations_AnyProperty(s, i) ==
  [s EXCEPT !.animationIsPlaying =
     [j \in Inst |-> IF j \in s.components /\ j # i THEN FALSE ELSE @[j]]]

\* stopRelatedAnimations (417-427); every component of the model is an
\* animation instance
stopRelatedAnimations(s, i) ==
  [s EXCEPT !.animationIsPlaying =
     [j \in Inst |->
        IF j \in s.components /\ j # i
           /\ s.data[j].property = s.data[i].property
        THEN FALSE ELSE @[j]]]

\* a begin that notifies before it stops the siblings
beginAnimation_EmitsFirst(s, i) ==
  LET s1 == updateConfig(s, i)
      s2 == [s1 EXCEPT !.time[i] = 0]
  IN IF ~s2.animation[i].exists THEN throw(s2, i)
     ELSE LET s3 == animationSeek(s2, i, 0)
              s4 == [s3 EXCEPT !.animationIsPlaying[i] = TRUE]
              s5 == emit(noteBegun(s4, i, TRUE), i, "animationbegin")
          IN stopRelatedAnimations(s5, i)

\* beginAnimation (183-190)
beginAnimation(s, i) ==
  LET s1 == updateConfig(s, i)
      s2 == [s1 EXCEPT !.time[i] = 0]
  IN IF ~s2.animation[i].exists THEN throw(s2, i)
     ELSE LET s3 == animationSeek(s2, i, 0)
              s4 == [s3 EXCEPT !.animationIsPlaying[i] = TRUE]
              s5 == stopRelatedAnimations(s4, i)
          IN emit(noteBegun(s5, i, TRUE), i, "animationbegin")

\* setTimeout(this.beginAnimation, delay)
setTimeout(s, i) == [s EXCEPT !.timers[i] = @ + 1]

\* a start event that begins at once, whatever the delay
onStartEvent_NoDelay(s, i) == beginAnimation(s, i)

\* onStartEvent (203-210)
onStartEvent(s, i) ==
  IF s.data[i].delay # 0 THEN setTimeout(s, i) ELSE beginAnimation(s, i)

\* createAndStartAnimation (156-177)
createAndStartAnimation(s, i) ==
  LET d == s.data[i]
      s1 == updateConfig(s, i)
      s2 == [s1 EXCEPT !.animationIsPlaying[i] = FALSE]
      s3 == anime(s2, i)
      s4 == addEventListeners(removeEventListeners(s3, i), i)
  IN IF ~d.autoplay \/ d.startEvents # {} THEN s4
     ELSE IF d.delay # 0 THEN setTimeout(s4, i)
     ELSE beginAnimation(s4, i)

\* update (102-120)
update(s, i) ==
  LET s1 == noteBegun([s EXCEPT !.animationIsPlaying[i] = FALSE], i, FALSE)
  IN IF s.data[i].property = "" THEN s1 ELSE createAndStartAnimation(s1, i)

\* a tick that hands the engine the frame delta, not the elapsed time
tick_DrivesDelta(s, i, dt) ==
  IF ~s.animationIsPlaying[i] THEN s
  ELSE LET s1 == [s EXCEPT !.time[i] = @ + dt]
       IN IF ~s1.animation[i].exists THEN throw(s1, i)
          ELSE animationTick(s1, i, dt)

\* tick (122-126)
tick(s, i, dt) ==
  IF ~s.animationIsPlaying[i] THEN s
  ELSE LET s1 == [s EXCEPT !.time[i] = @ + dt]
       IN IF ~s1.animation[i].exists THEN throw(s1, i)
          ELSE animationTick(s1, i, s1.time[i])

\* remove (128-131)
remove(s, i) == removeEventListeners(pauseAnimation(s, i), i)

\* pause (133-138)
pause(s, i) ==
  LET s1 == [s EXCEPT !.paused[i] = TRUE, !.pausedWasPlaying[i] = TRUE]
  IN removeEventListeners(pauseAnimation(s1, i), i)

\* play (143-151)
play(s, i) ==
  IF ~s.paused[i] THEN s
  ELSE LET s1 == addEventListeners([s EXCEPT !.paused[i] = FALSE], i)
       IN IF s1.pausedWasPlaying[i]
          THEN [resumeAnimation(s1, i) EXCEPT !.pausedWasPlaying[i] = FALSE]
          ELSE s1

\* the handlers of instance i that listen to event e, in the order the
\* component attaches them
dispatch(s, i, e) ==
  LET has(h) == [event |-> e, handler |-> h] \in s.listeners[i]
      s1 == IF has("onStartEvent") THEN onStartEvent(s, i) ELSE s
      s2 == IF has("pauseAnimation") THEN pauseAnimation(s1, i) ELSE s1
  IN IF has("resumeAnimation") THEN resumeAnimation(s2, i) ELSE s2

-----------------------------------------------------------------------------
(* The state machine *)

\* the current state as a record
Cur ==
  [components |-> components, elIsPlaying |-> elIsPlaying, data |-> data,
   time |-> time, animation |-> animation,
   animationIsPlaying |-> animationIsPlaying, paused |-> paused,
   pausedWasPlaying |-> pausedWasPlaying, config |-> config,
   listeners |-> listeners, timers |-> timers, scene |-> scene,
   begun |-> begun, last |-> last]

\* the state at the start of host call op; last records the call, the
\* running flags it found, and what it goes on to do
Call(op, i, e, dt) ==
  [Cur EXCEPT !.last = [op |-> op, inst |-> i, event |-> e, dt |-> dt,
                        wasPlaying |-> animationIsPlaying,
                        emitted |-> <<>>, writes |-> <<>>, driven |-> <<>>,
                        threw |-> {}]]

Commit(s) ==
  /\ components' = s.components
  /\ elIsPlaying' = s.elIsPlaying
  /\ data' = s.data
  /\ time' = s.time
  /\ animation' = s.animation
  /\ animationIsPlaying' = s.animationIsPlaying
  /\ paused' = s.paused
  /\ pausedWasPlaying' = s.pausedWasPlaying
  /\ config' = s.config
  /\ listeners' = s.listeners
  /\ timers' = s.timers
  /\ scene' = s.scene
  /\ begun' = s.begun
  /\ last' = s.last

\* one handler on every instance of the entity, in the order of
\* el.components
tickEach(s, dt) ==
  LET s1 == IF 1 \in s.components THEN tick(s, 1, dt) ELSE s
  IN IF 2 \in s.components THEN tick(s1, 2, dt) ELSE s1

pauseEach(s) ==
  LET s1 == IF 1 \in s.components THEN pause(s, 1) ELSE s
  IN IF 2 \in s.components THEN pause(s1, 2) ELSE s1

playEach(s) ==
  LET s1 == IF 1 \in s.components THEN play(s, 1) ELSE s
  IN IF 2 \in s.components THEN play(s1, 2) ELSE s1

\* the entity with the instances of I, each after init() (76-100) with the
\* schema's default data; the scene holds the values of Live; the history of
\* begins is kept for the instances of H
InitState(I, Live, H) ==
  /\ components = I
  /\ elIsPlaying = TRUE
  /\ data = [i \in Inst |-> DefaultData]
  /\ time = [i \in Inst |-> 0]
  /\ animation = [i \in Inst |-> NullAnimation]
  /\ animationIsPlaying = [i \in Inst |-> FALSE]
  /\ paused = [i \in Inst |-> FALSE]
  /\ pausedWasPlaying = [i \in Inst |-> FALSE]
  /\ config = [i \in Inst |-> NoConfig]
  /\ listeners = [i \in Inst |-> {}]
  /\ timers = [i \in Inst |-> 0]
  /\ scene = Live
  /\ begun = [i \in H |-> FALSE]
  /\ last = [op |-> "init", inst |-> 0, event |-> "", dt |-> 0,
             wasPlaying |-> [i \in Inst |-> FALSE],
             emitted |-> <<>>, writes |-> <<>>, driven |-> <<>>, threw |-> {}]

InitWith(I, Live) == InitState(I, Live, {})

\* the host replaces the configuration of instance i by c and calls update()
Update(i, c) ==
  /\ i \in components
  /\ c # data[i]
  /\ LET s == update([Call("update", i, "", 0) EXCEPT !.data[i] = c], i)
     IN s.timers[i] <= MaxTimers /\ Commit(s)

\* one frame: the host calls tick(t, dt) of every instance of a playing entity
Tick(dt) ==
  /\ elIsPlaying
  /\ \A i \in components : animationIsPlaying[i] => time[i] + dt <= MaxTime
  /\ Commit(tickEach(Call("tick", 0, "", dt), dt))

\* event e, which instance i listens to, is emitted on the entity (a
\* listener that outlived remove() still calls its handler)
Event(i, e) ==
  /\ \E l \in listeners[i] : l.event = e
  /\ LET s == dispatch(Call("event", i, e, 0), i, e)
     IN s.timers[i] <= MaxTimers /\ Commit(s)

\* a delayed beginAnimation of instance i fires
TimerFire(i) ==
  /\ timers[i] > 0
  /\ Commit(beginAnimation([Call("timer", i, "", 0) EXCEPT !.timers[i] = @ - 1], i))

\* the host detaches instance i from the entity: remove()
Remove(i) ==
  /\ i \in components
  /\ Commit(remove([Call("remove", i, "", 0) EXCEPT !.components = @ \ {i}], i))

\* the entity is paused: pause() of every instance
EntityPause ==
  /\ elIsPlaying
  /\ Commit(pauseEach([Call("pause", 0, "", 0) EXCEPT !.elIsPlaying = FALSE]))

\* the entity plays again: play() of every instance
EntityPlay ==
  /\ ~elIsPlaying
  /\ Commit(playEach([Call("play", 0, "", 0) EXCEPT !.elIsPlaying = TRUE]))

-----------------------------------------------------------------------------
(* The specifications *)

\* a configuration of the schema
Data(property, from, to, autoplay, delay, startEvents) ==
  [DefaultData EXCEPT !.property = property, !.from = from, !.to = to,
                      !.autoplay = autoplay, !.delay = delay,
                      !.startEvents = startEvents,
                      !.pauseEvents = {"pause"}, !.resumeEvents = {"resume"}]

\* the values of the scene before any animation wrote to it
LiveScene ==
  [p \in Properties |->
     CASE p = "material.opacity" -> JsNumber(1)
       [] p \in {PROP_POSITION, PROP_ROTATION, "raycaster.direction"} ->
            JsVec3(0, 0, 0)
       [] p = "components.material.material.color" -> JsColor(0, 0, 0)
       [] OTHER -> JsBoolean(TRUE)]

\* the frame deltas of the model (milliseconds)
Deltas == {500}

\* the event names of the configurations
Events == {"start", "pause", "resume"}

\* the configurations an instance is given: autoplay, started by an event,
\* started after a delay, never started, and without a property
Configs ==
  {Data("material.opacity", "0", "10", TRUE, 0, {}),
   Data("material.opacity", "0", "10", TRUE, 0, {"start"}),
   Data("material.opacity", "0", "10", TRUE, 100, {}),
   Data("material.opacity", "0", "10", FALSE, 0, {}),
   Data("", "", "", TRUE, 0, {"start"})}

Init == InitWith({1}, LiveScene)

Next ==
  \/ \E i \in Inst, c \in Configs : Update(i, c)
  \/ \E dt \in Deltas : Tick(dt)
  \/ \E i \in Inst, e \in Events : Event(i, e)
  \/ \E i \in Inst : TimerFire(i)
  \/ EntityPause
  \/ EntityPlay

Spec == Init /\ [][Next]_vars

\* Two instances on the entity, with the same property path or different
\* ones; no delayed start
PairConfigs ==
  {Data("material.opacity", "0", "10", TRUE, 0, {}),
   Data("material.opacity", "0", "10", TRUE, 0, {"start"}),
   Data("visible", "false", "true", TRUE, 0, {"start"})}

InitPair == InitWith({1, 2}, LiveScene)

NextPair ==
  \/ \E i \in Inst, c \in PairConfigs : Update(i, c)
  \/ \E dt \in Deltas : Tick(dt)
  \/ \E i \in Inst, e \in Events : Event(i, e)
  \/ EntityPause
  \/ EntityPlay

SpecPair == InitPair /\ [][NextPair]_vars

\* One instance animating a number from 0 to 10 in 1000 ms, no loop, no
\* delay, begun by autoplay; the frame deltas split the duration unevenly
NumericData == Data("material.opacity", "0", "10", TRUE, 0, {})

NumericDeltas == {300, 500}

InitNumeric == InitWith({1}, LiveScene)

NextNumeric ==
  \/ Update(1, NumericData)
  \/ \E dt \in NumericDeltas : Tick(dt)
  \/ \E e \in {"pause", "resume"} : Event(1, e)
  \/ EntityPause
  \/ EntityPlay

SpecNumeric == InitNumeric /\ [][NextNumeric]_vars

\* One instance animating the boolean property `visible`, whose live value
\* is true or false, to "true" or "false", from an explicit text or from the
\* live value
BooleanConfigs ==
  {Data("visible", from, to, TRUE, 0, {}) :
     from \in {"", "true", "false"}, to \in {"true", "false"}}

InitBoolean ==
  \E v \in BOOLEAN :
    InitWith({1}, [LiveScene EXCEPT !["visible"] = JsBoolean(v)])

NextBoolean ==
  \/ \E c \in BooleanConfigs : Update(1, c)
  \/ \E dt \in Deltas : Tick(dt)
  \/ \E e \in {"pause", "resume"} : Event(1, e)

SpecBoolean == InitBoolean /\ [][NextBoolean]_vars

\* One instance, given a configuration of every route of updateConfig: a
\* component vector with isRawProperty set, a raw color, a rotation, a vector
\* that is no transform, the default route through the raw accessors
RawVectorData ==
  [Data(PROP_POSITION, "", "1 2 3", TRUE, 0, {}) EXCEPT !.isRawProperty = TRUE]

RawColorData ==
  [Data("components.material.material.color", "", "#fff", TRUE, 0, {})
     EXCEPT !.type = TYPE_COLOR]

RouteConfigs ==
  {RawVectorData,
   RawColorData,
   Data(PROP_ROTATION, "0 0 0", "180 0 0", TRUE, 0, {}),
   Data("raycaster.direction", "0 0 0", "1 2 3", TRUE, 0, {}),
   Data("object3D.visible", "false", "true", TRUE, 0, {})}

InitRoutes == InitWith({1}, LiveScene)

NextRoutes ==
  \/ \E c \in RouteConfigs : Update(1, c)
  \/ \E dt \in Deltas : Tick(dt)
  \/ \E e \in {"pause", "resume"} : Event(1, e)

SpecRoutes == InitRoutes /\ [][NextRoutes]_vars

\* One instance whose start is delayed or not, by autoplay or by a start
\* event, with a property or without one
DelayConfigs ==
  {Data(property, "0", "10", TRUE, delay, startEvents) :
     property \in {"material.opacity", ""}, delay \in {0, 100},
     startEvents \in {{}, {"start"}}}

InitDelay == InitWith({1}, LiveScene)

NextDelay ==
  \/ \E c \in DelayConfigs : Update(1, c)
  \/ \E dt \in Deltas : Tick(dt)
  \/ \E e \in Events : Event(1, e)
  \/ TimerFire(1)
  \/ EntityPause
  \/ EntityPlay

SpecDelay == InitDelay /\ [][NextDelay]_vars

\* Two instances on one property, on an entity that is paused, played, and
\* loses the first instance: the first is started after a delay, at once or
\* by an event, the second by an event
LifeConfigs ==
  {Data("material.opacity", "0", "10", TRUE, 100, {}),
   Data("material.opacity", "0", "10", TRUE, 0, {}),
   Data("material.opacity", "0", "10", TRUE, 0, {"start"})}

SiblingData == Data("material.opacity", "0", "10", TRUE, 0, {"start"})

InitLife == InitWith({1, 2}, LiveScene)

NextLife ==
  \/ \E c \in LifeConfigs : Update(1, c)
  \/ Update(2, SiblingData)
  \/ \E dt \in Deltas : Tick(dt)
  \/ \E e \in Events : Event(1, e)
  \/ Event(2, "start")
  \/ TimerFire(1)
  \/ Remove(1)
  \/ EntityPause
  \/ EntityPlay

SpecLife == InitLife /\ [][NextLife]_vars

\* The one instance of Spec, with the history of its begins
InitHistory == InitState({1}, LiveScene, {1})

SpecHistory == InitHistory /\ [][Next]_vars

-----------------------------------------------------------------------------
(* What the last host call did *)

\* instance i emitted notification name during the call l records
EmittedIn(l, name, i) ==
  \E k \in 1..Len(l.emitted) :
    l.emitted[k].name = name /\ l.emitted[k].detail = i

\* how many times it did
EmittedCountIn(l, name, i) ==
  Cardinality({k \in 1..Len(l.emitted) :
                 l.emitted[k].name = name /\ l.emitted[k].detail = i})

\* instance i drove its interpolation object (seek or tick) during the call
DroveIn(l, i) == \E k \in 1..Len(l.driven) : l.driven[k].by = i

\* instance i wrote to the scene during the call
WroteIn(l, i) == \E k \in 1..Len(l.writes) : l.writes[k].by = i

\* beginAnimation of instance i ran during the call l records (it emitted
\* animationbegin, or threw for want of an interpolation object)
BeganIn(l, i) ==
  \/ EmittedIn(l, "animationbegin", i)
  \/ l.op # "tick" /\ i \in l.threw

Emitted(name, i) == EmittedIn(last, name, i)
Drove(i) == DroveIn(last, i)
Wrote(i) == WroteIn(last, i)

-----------------------------------------------------------------------------
(* C1: when an instance begins while another instance with an equal        *)
(* property path is running, then right after the begin the other one is   *)
(* not running and the one that began is (last start wins).                *)
C1_LastStartWins ==
  \A i, j \in components :
    ( /\ i # j
      /\ Emitted("animationbegin", j)
      /\ data[i].property = data[j].property
      /\ last.wasPlaying[i] )
    => (~animationIsPlaying[i] /\ animationIsPlaying[j])

\* the second instance began while the first, on the same property, was running
C1_Witness ==
  /\ Emitted("animationbegin", 2)
  /\ data[1].property = "material.opacity"
  /\ data[2].property = "material.opacity"
  /\ last.wasPlaying[1]
  /\ ~animationIsPlaying[1]
  /\ animationIsPlaying[2]

(* C2: among the instances of the entity that target the same property    *)
(* path, at most one is running, in every reachable state.                 *)
C2_AtMostOneRunning ==
  \A i, j \in components :
    (i # j /\ data[i].property # "" /\ data[i].property = data[j].property)
    => ~(animationIsPlaying[i] /\ animationIsPlaying[j])

-----------------------------------------------------------------------------
\* the last call was event e, and instance i listened to it with handler h
\* alone
Handled(l, i, h) ==
  /\ l.op = "event"
  /\ l.inst = i
  /\ [event |-> l.event, handler |-> h] \in listeners[i]
  /\ \A x \in listeners[i] : x.event = l.event => x.handler = h

(* C3: a pause trigger and a resume trigger change only the running flag   *)
(* (the elapsed time and the interpolation object stay as they are), a     *)
(* tick of an instance that is not running adds nothing to the elapsed     *)
(* time, and a tick of a running instance, the first after a resume        *)
(* included, drives the interpolation object to the elapsed time it found  *)
(* plus dt.                                                                *)
C3_PauseResumeKeepsTime ==
  [][\A i \in components :
       /\ (Handled(last', i, "pauseAnimation") \/ Handled(last', i, "resumeAnimation"))
          => /\ time'[i] = time[i]
             /\ animation'[i] = animation[i]
             /\ animationIsPlaying'[i] = Handled(last', i, "resumeAnimation")
       /\ (last'.op = "tick" /\ ~animationIsPlaying[i])
          => (time'[i] = time[i] /\ animation'[i] = animation[i])
       /\ (last'.op = "tick" /\ animationIsPlaying[i] /\ animation[i].exists)
          => /\ time'[i] = time[i] + last'.dt
             /\ last'.driven = <<[by |-> i, time |-> time[i] + last'.dt]>>
             /\ animation'[i].currentTime
                  = Min(time[i] + last'.dt, animation[i].config.duration)
    ]_vars

\* the instance ran for 500 ms, was paused, and has just been resumed: the
\* elapsed time and the interpolation object are where the pause left them
C3_Witness ==
  /\ Handled(last, 1, "resumeAnimation")
  /\ ~last.wasPlaying[1]
  /\ animationIsPlaying[1]
  /\ time[1] = 500
  /\ animation[1].exists
  /\ animation[1].currentTime = 500
  /\ ~animation[1].completed

(* C9, as the claim states it: a resume trigger that reaches an Idle       *)
(* instance (just configured and not begun, or completed) leaves it not    *)
(* running.                                                                *)
C9_ResumeOnlyFromPaused ==
  [][\A i \in components :
       ( /\ ~animationIsPlaying[i]
         /\ animation[i].completed \/ (last.op = "update" /\ last.inst = i)
         /\ Handled(last', i, "resumeAnimation") )
       => ~animationIsPlaying'[i]
    ]_vars

(* C9, amended: the instance starts Idle (not running); a resume trigger   *)
(* sets the running flag whatever the state, Paused or Idle, and changes   *)
(* nothing else of the instance.                                           *)
C9_ResumeSetsFlag ==
  [][\A i \in components :
       /\ last.op = "init" => ~animationIsPlaying[i]
       /\ Handled(last', i, "resumeAnimation")
          => /\ animationIsPlaying'[i]
             /\ time'[i] = time[i]
             /\ animation'[i] = animation[i]
             /\ listeners'[i] = listeners[i]
             /\ last'.emitted = <<>>
    ]_vars

\* a resume trigger has made a completed (Idle) instance running
C9_Witness ==
  /\ Handled(last, 1, "resumeAnimation")
  /\ ~last.wasPlaying[1]
  /\ animation[1].completed
  /\ animationIsPlaying[1]

(* C10: when the engine reports completion, the instance was running, its  *)
(* running flag is false afterwards and exactly one animationcomplete with *)
(* the instance's name is emitted; a tick of an instance that is not       *)
(* running changes neither the elapsed time nor the interpolation object.  *)
C10_CompletionStops ==
  [][\A i \in components :
       /\ EmittedIn(last', "animationcomplete", i)
          => /\ EmittedCountIn(last', "animationcomplete", i) = 1
             /\ animationIsPlaying[i]
             /\ ~animationIsPlaying'[i]
             /\ animation'[i].completed
       /\ (last'.op = "tick" /\ ~animationIsPlaying[i])
          => /\ time'[i] = time[i]
             /\ animation'[i] = animation[i]
             /\ ~DroveIn(last', i)
             /\ ~WroteIn(last', i)
    ]_vars

\* a tick has driven the running instance to its end
C10_Witness ==
  /\ last.op = "tick"
  /\ last.wasPlaying[1]
  /\ Emitted("animationcomplete", 1)
  /\ ~animationIsPlaying[1]
  /\ time[1] >= animation[1].config.duration

(* C4: an instance whose configuration has an empty property is never      *)
(* running, never drives or dereferences an interpolation object, and      *)
(* writes nothing to the scene, whatever calls it has received.            *)
C4_EmptyPropertyInert ==
  \A i \in components :
    data[i].property = ""
    => /\ ~animationIsPlaying[i]
       /\ ~Drove(i)
       /\ ~Wrote(i)
       /\ i \notin last.threw

(* C7: after a configuration update with a non-empty property the instance *)
(* is idle when autoplay is off or start events are declared, and then no  *)
(* begin occurs except by a start event of this configuration (a timer     *)
(* begins it only if the configuration delays its start events); with      *)
(* autoplay, no start events and no delay the update begins it at once.    *)
C7_UpdateThenIdleOrBegin ==
  \A i \in components :
    LET d == data[i]
        triggered == ~d.autoplay \/ d.startEvents # {}
    IN d.property # ""
       => /\ (last.op = "update" /\ last.inst = i /\ triggered)
             => (~animationIsPlaying[i] /\ ~Emitted("animationbegin", i))
          /\ (Emitted("animationbegin", i) /\ triggered)
             => \/ last.op = "event" /\ last.inst = i /\ last.event \in d.startEvents
                \/ last.op = "timer" /\ last.inst = i /\ d.delay # 0
                   /\ d.startEvents # {}
          /\ (last.op = "update" /\ last.inst = i /\ ~triggered /\ d.delay = 0)
             => (animationIsPlaying[i] /\ Emitted("animationbegin", i))

(* C8: an entity pause followed by an entity play leaves every instance    *)
(* running if and only if it was running before the pause, with the        *)
(* elapsed time of the pause and its listeners attached again.             *)
C8_PausePlayRestores ==
  [][(last.op = "pause" /\ last'.op = "play")
     => \A i \in components :
          /\ animationIsPlaying'[i] = last.wasPlaying[i]
          /\ time'[i] = time[i]
          /\ ListenersOf(data[i]) \subseteq listeners'[i]
    ]_vars

(* C5: for from "0", to "10", dur 1000, whenever the elapsed time is 1000   *)
(* or more the scene holds exactly 10, and animationcomplete is emitted    *)
(* once, by the call that takes the elapsed time to 1000 or beyond, and by *)
(* no call before or after it, however the deltas are split.               *)
C5_ExactlyTenExactlyOnce ==
  [][data'[1] = NumericData
     => LET reaches == time[1] < NumericData.dur /\ time'[1] >= NumericData.dur
        IN /\ time'[1] >= NumericData.dur
                => scene'["material.opacity"] = JsNumber(10)
           /\ EmittedCountIn(last', "animationcomplete", 1)
                = (IF reaches THEN 1 ELSE 0)
    ]_vars

\* the elapsed time went past 1000 in uneven steps, and ticks followed
C5_Witness ==
  /\ data[1] = NumericData
  /\ time[1] > NumericData.dur
  /\ last.op = "tick"
  /\ ~Emitted("animationcomplete", 1)
  /\ animation[1].completed
  /\ scene["material.opacity"] = JsNumber(10)

(* C6: for a boolean property animated to "true" or "false", whatever the  *)
(* from (a text, or the live value), both endpoints of the interpolation   *)
(* are 0 or 1, and what is written to the scene is a boolean: true when    *)
(* the interpolated value is 1, false when it is 0.                        *)
C6_BooleanCoercion ==
  \A i \in components :
    (data[i].property = "visible" /\ data[i].to \in {"true", "false"})
    => /\ config[i].from \in {JsNumber(0), JsNumber(1)}
       /\ config[i].to = JsNumber(IF data[i].to = "true" THEN 1 ELSE 0)
       /\ \A k \in 1..Len(last.writes) :
            last.writes[k].by = i => last.writes[k].value.t = "boolean"
       /\ Wrote(i)
          => /\ animation[i].lastValue = JsNumber(1) => scene["visible"] = JsBoolean(TRUE)
             /\ animation[i].lastValue = JsNumber(0) => scene["visible"] = JsBoolean(FALSE)

(* C11: an instance whose configuration has isRawProperty set reads its    *)
(* start value with the raw getter (unless the configuration states it)    *)
(* and writes only through the raw setter, whatever the property path and  *)
(* its schema type, a vector component such as position included.          *)
C11_RawFlagForcesRawAccess ==
  \A i \in components :
    (data[i].isRawProperty /\ data[i].property # "")
    => /\ config[i].reader \in {"data.from", "getRawProperty"}
       /\ config[i].writer = "setRawProperty"
       /\ \A k \in 1..Len(last.writes) :
            last.writes[k].by = i => last.writes[k].via = "setRawProperty"

(* C16: whatever the route (raw color, default, transform vector, other    *)
(* vector), a call of the update closure that writes to the scene has an   *)
(* interpolated value that differs from the value of the call before it    *)
(* (from, for the first call): two calls in a row with the same value      *)
(* write at most once.                                                     *)
C16_WritesOnlyOnChange ==
  [][\A i \in components :
       (WroteIn(last', i) /\ animation'[i].exists)
       => LET a == animation'[i]
              fresh == last'.op = "update" /\ last'.inst = i
              before == IF fresh THEN a.config.from
                        ELSE Interpolate(a.config, animation[i].currentTime)
          IN Interpolate(a.config, a.currentTime) # before
    ]_vars

(* C12: with a delay, a start (a start event, or an update with autoplay   *)
(* and no start events) arms exactly one timer, runs no begin and does not *)
(* set the instance running; the timer, when it fires, is spent and runs   *)
(* one begin.  Without a delay the start runs the begin in the same call   *)
(* and arms no timer.  A begin that finds an interpolation object emits    *)
(* animationbegin once and leaves the instance running from time 0.        *)
C12_DelayedStart ==
  [][\A i \in components :
       LET d == data'[i]
           byUpdate == /\ last'.op = "update" /\ last'.inst = i
                       /\ d.property # "" /\ d.autoplay /\ d.startEvents = {}
           byEvent == Handled(last', i, "onStartEvent")
           byTimer == last'.op = "timer" /\ last'.inst = i
           begins == EmittedCountIn(last', "animationbegin", i)
       IN /\ ((byUpdate \/ byEvent) /\ d.delay # 0)
             => /\ timers'[i] = timers[i] + 1
                /\ ~BeganIn(last', i)
                /\ animationIsPlaying'[i] = (byEvent /\ animationIsPlaying[i])
                /\ time'[i] = time[i]
          /\ ((byUpdate \/ byEvent) /\ d.delay = 0)
             => (timers'[i] = timers[i] /\ BeganIn(last', i))
          /\ byTimer => (timers'[i] = timers[i] - 1 /\ BeganIn(last', i))
          /\ (byUpdate \/ byEvent \/ byTimer) => begins <= 1
          /\ begins = 1 => (animationIsPlaying'[i] /\ time'[i] = 0)
    ]_vars

\* the timer a start event armed has fired and begun the instance
C12_Witness ==
  /\ last.op = "timer"
  /\ last.inst = 1
  /\ data[1].delay = 100
  /\ data[1].startEvents = {"start"}
  /\ ~last.wasPlaying[1]
  /\ timers[1] = 0
  /\ Emitted("animationbegin", 1)
  /\ animationIsPlaying[1]

(* C13: the listeners of an instance on the entity are exactly those of    *)
(* its current configuration (none for an event name only an earlier       *)
(* configuration had), and an instance that was removed, or whose entity   *)
(* is paused, has no listener left.                                        *)
C13_ListenersAreCurrent ==
  \A i \in Inst :
    IF i \in components /\ ~paused[i]
    THEN listeners[i] = ListenersOf(data[i])
    ELSE listeners[i] = {}

(* C14: a delayed start that fires when its instance has been removed, or  *)
(* while the entity is paused, does nothing: the instance stays not        *)
(* running, its elapsed time is not reset, no running flag of a sibling    *)
(* changes and no animationbegin is emitted.                               *)
C14_TornDownTimerIsNoOp ==
  [][\A i \in Inst :
       (last'.op = "timer" /\ last'.inst = i /\ (i \notin components \/ paused[i]))
       => /\ ~animationIsPlaying'[i]
          /\ time'[i] = time[i]
          /\ animationIsPlaying' = animationIsPlaying
          /\ ~EmittedIn(last', "animationbegin", i)
    ]_vars

(* C19: the elapsed time of an instance changes only in a tick that finds  *)
(* it running (dt is added) and in a begin (it becomes 0): an update, a    *)
(* pause, a resume, a stop by a sibling, a completion, remove, entity      *)
(* pause and entity play leave it as it is, and in a call without a begin  *)
(* it does not decrease.                                                   *)
C19_TimeChangesOnlyByTickAndBegin ==
  [][\A i \in Inst :
       LET ticked == last'.op = "tick" /\ i \in components /\ animationIsPlaying[i]
       IN /\ BeganIn(last', i) => time'[i] = 0
          /\ ticked => time'[i] = time[i] + last'.dt
          /\ (~BeganIn(last', i) /\ ~ticked) => time'[i] = time[i]
          /\ ~BeganIn(last', i) => time'[i] >= time[i]
    ]_vars

\* the first instance ran for 1000 ms, completed, and was removed: the
\* elapsed time is still 1000
C19_Witness ==
  /\ last.op = "remove"
  /\ last.inst = 1
  /\ 1 \notin components
  /\ animation[1].completed
  /\ time[1] = 1000

C17_BeginResetsAndNotifies ==
  \A j \in Inst :
    Emitted("animationbegin", j)
    => /\ EmittedCountIn(last, "animationbegin", j) = 1
       /\ time[j] = 0
       /\ animationIsPlaying[j]
       /\ animation[j].currentTime = 0
       /\ ~animation[j].completed
       /\ \E k \in 1..Len(last.driven) : last.driven[k] = [by |-> j, time |-> 0]
       /\ \A k \in 1..Len(last.emitted) :
            (last.emitted[k].name = "animationbegin" /\ last.emitted[k].detail = j)
            => /\ j \in last.emitted[k].running
               /\ \A i \in components \ {j} :
                    data[i].property = data[j].property
                    => i \notin last.emitted[k].running

\* a delayed timer began the first instance while the second, on the same
\* property, was running
C17_Witness ==
  /\ last.op = "timer"
  /\ Emitted("animationbegin", 1)
  /\ 2 \in components
  /\ data[2].property = data[1].property
  /\ last.wasPlaying[2]
  /\ ~animationIsPlaying[2]
  /\ animationIsPlaying[1]

(* C18: an instance that emits animationcomplete has emitted               *)
(* animationbegin since its last configuration update.                     *)
C18_CompleteFollowsBegin ==
  \A i \in DOMAIN begun :
    Emitted("animationcomplete", i) => begun[i]

====
